---- MODULE Spec2Model ----
(***************************************************************************)
(* A model of playback_downloader.py: the DeviceScraper object (download   *)
(* ledger, download handler, batch reconciliation) and the driving loop    *)
(* download_playback, together with the parts of the environment they      *)
(* observe: the files on disk, the browser session and the download        *)
(* events of the browser.                                                  *)
(***************************************************************************)
EXTENDS Integers, Sequences, FiniteSets, TLC

(***************************************************************************)
(* Bounds of the model.                                                    *)
(***************************************************************************)
\* download events the browser emits in one run of the model
MaxDownloads == 2
\* channels in the device's channel list that pass the [1]..[21] filter
NumChannels == 2
\* largest page count the pagination reports
MaxPages == 2
\* process stops (kill, power loss) followed by a restart for the same date
MaxCrashes == 1
\* largest success / failure tally an alert text reports
MaxTally == 1

(***************************************************************************)
(* Program constants.                                                      *)
(***************************************************************************)
\* download_playback: max_retries = 3
max_retries == 3
\* wait_for_download_completion: for wait_count in range(60)
AlertWaitTicks == 60
\* wait_for_download_completion: for _ in range(60) (waiting for the alert)
QueuedAlertTicks == 60
\* wait_for_download_completion: for wait_count in range(120)
QueuedFilesTicks == 120
\* wait_for_download_completion: no_change_count > 30
StallPolls == 30
\* seconds slept at the end of one iteration of the polling loop
PollInterval == 2

None == "None"
\* None as the value of current_channel and current_page
NoCtx == 0

(***************************************************************************)
(* Filenames.  A filename is a string; Tokens gives its lexical structure  *)
(* as the regular expressions of the program see it: runs of digits,       *)
(* underscores, the dotted address, a 14-digit timestamp (as its six       *)
(* fields), four hex characters, the extension.                            *)
(***************************************************************************)
FileA == "10.0.0.5_003_20250129143000A1F0.mp4"
FileB == "10.0.0.5_3_20250129143000_20250129144500.mp4"
FileU == "clip.mp4"

Filenames == {FileA, FileB, FileU}

Tok(k, v) == [k |-> k, v |-> v]
TIp == Tok("ip", <<"10.0.0.5">>)
TUs == Tok("_", <<"_">>)
TStart == Tok("d14", <<"2025", "01", "29", "14", "30", "00">>)
TEnd == Tok("d14", <<"2025", "01", "29", "14", "45", "00">>)

Tokens(f) ==
  CASE f = FileA -> <<TIp, TUs, Tok("d", <<"003">>), TUs, TStart,
                      Tok("hex4", <<"A1F0">>), Tok("ext", <<".mp4">>)>>
    [] f = FileB -> <<TIp, TUs, Tok("d", <<"3">>), TUs, TStart, TUs, TEnd,
                      Tok("ext", <<".mp4">>)>>
    [] f = FileU -> <<Tok("w", <<"clip">>), Tok("ext", <<".mp4">>)>>

\* int(group): the value of a run of digits
IntOf(s) ==
  CASE s = "003" -> 3
    [] s = "3" -> 3
    [] s = "001" -> 1
    [] s = "1" -> 1

\* number of characters of a run of digits
DigitCount(s) ==
  CASE s = "003" -> 3
    [] s = "001" -> 3
    [] s = "3" -> 1
    [] s = "1" -> 1

\* filename.endswith(".mp4")
EndsWithMp4(f) ==
  LET t == Tokens(f) IN Len(t) >= 1 /\ t[Len(t)] = Tok("ext", <<".mp4">>)

\* the last n tokens of a token sequence (a search anchored at the end by $)
LastN(t, n) == SubSeq(t, Len(t) - n + 1, Len(t))

\* re.search(r"\d+\.\d+\.\d+\.\d+_(\d{3})_(\d{14})([A-F0-9]{4})\.mp4$", f)
OrganizeMatch(f) ==
  LET t == Tokens(f) IN
    /\ Len(t) >= 7
    /\ LET m == LastN(t, 7) IN
         /\ m[1].k = "ip"
         /\ m[2].k = "_"
         /\ m[3].k = "d" /\ DigitCount(m[3].v[1]) = 3
         /\ m[4].k = "_"
         /\ m[5].k = "d14"
         /\ m[6].k = "hex4"
         /\ m[7] = Tok("ext", <<".mp4">>)

\* re.search(r"\d+\.\d+\.\d+\.\d+_(\d+)_(\d{4})(\d{2})...(\d{2})_(\d{4})...(\d{2})\.mp4$", f)
ExistsMatch(f) ==
  LET t == Tokens(f) IN
    /\ Len(t) >= 8
    /\ LET m == LastN(t, 8) IN
         /\ m[1].k = "ip"
         /\ m[2].k = "_"
         /\ m[3].k = "d"
         /\ m[4].k = "_"
         /\ m[5].k = "d14"
         /\ m[6].k = "_"
         /\ m[7].k = "d14"
         /\ m[8] = Tok("ext", <<".mp4">>)

\* organized_dir / f"channel{channel_num}" / f"{date_str}.{start_formatted}.mp4"
OrganizedPath(channel_num, ts) ==
  <<"channel", channel_num,
    <<ts[1], "-", ts[2], "-", ts[3]>>, ".",
    <<ts[4], "-", ts[5], "-", ts[6]>>, ".mp4">>

\* the path _organize_single_file moves a matching file to
OrganizeTarget(f) ==
  LET m == LastN(Tokens(f), 7) IN OrganizedPath(IntOf(m[3].v[1]), m[5].v)

\* the path check_file_exists probes for a matching file
ExpectedPath(f) ==
  LET m == LastN(Tokens(f), 8) IN OrganizedPath(IntOf(m[3].v[1]), m[5].v)

(***************************************************************************)
(* The ledger document {"channels": {ck: {"pages": {pk: [filename...]}}}}: *)
(* a function from channel keys to a function from page keys to the list   *)
(* of filenames.  Keys are the decimal strings of the numbers.             *)
(***************************************************************************)
StrOfFirst(n) == "1"

\* str(n)
Str(n) ==
  CASE n = 1 -> "1"
    [] n = 2 -> "2"
    [] n = 3 -> "3"
    [] n = 4 -> "4"

EmptyDb == <<>>

InSeq(x, s) == \E i \in 1..Len(s) : s[i] = x

PutAlone(d, k, v) == [j \in {k} |-> v]

\* dict with d[k] = v
Put(d, k, v) == [j \in DOMAIN d \cup {k} |-> IF j = k THEN v ELSE d[j]]

\* is_file_downloaded on ledger document d
IsDownloadedIn(d, channel, page, filename) ==
  IF Str(channel) \notin DOMAIN d THEN FALSE
  ELSE IF Str(page) \notin DOMAIN d[Str(channel)] THEN FALSE
  ELSE InSeq(filename, d[Str(channel)][Str(page)])

\* the ledger document after the in-memory part of mark_file_downloaded
MarkedDbBug(d, channel, page, filename) ==
  LET ck == Str(channel)
      pk == Str(page)
      pages == IF ck \in DOMAIN d THEN d[ck] ELSE EmptyDb
      files == IF pk \in DOMAIN pages THEN pages[pk] ELSE <<>>
  IN Put(d, ck, Put(pages, pk, Append(files, filename)))

MarkedDb(d, channel, page, filename) ==
  LET ck == Str(channel)
      pk == Str(page)
      pages == IF ck \in DOMAIN d THEN d[ck] ELSE EmptyDb
      files == IF pk \in DOMAIN pages THEN pages[pk] ELSE <<>>
  IN Put(d, ck, Put(pages, pk,
                    IF InSeq(filename, files) THEN files
                    ELSE Append(files, filename)))

\* whether mark_file_downloaded appends (and therefore saves)
MarkAppends(d, channel, page, filename) ==
  ~IsDownloadedIn(d, channel, page, filename)

(***************************************************************************)
(* State.                                                                  *)
(***************************************************************************)
VARIABLES
  alive,                    \* the process is running
  pc,                       \* position of main / download_playback
  downloaded_files_db,      \* TRUE once set_download_date has set the file
  downloaded_files_db_data, \* the in-memory ledger
  pending_downloads,        \* downloads being handled
  completed_downloads,      \* filenames landed in this session
  current_download_batch,   \* filenames landed since the last start_download
  current_channel,
  current_page,
  ledgerFile,               \* the ledger file of the target date on disk
  downloadDir,              \* download_dir: filename -> "none" | "zero" | "data"
  organizedDir,             \* paths present under organized_dir
  sessionValid,             \* the device still accepts the session
  dl,                       \* the download events and their handlers
  transfer,                 \* the transfer started last: (run, channel, page, attempt)
  chanIdx,                  \* download_playback: index in active_channels
  page,                     \* download_playback: page of the for loop
  totalPages,               \* page_info["total"]
  retry_count,
  last_progress,            \* wait_for_download_completion locals
  no_change_count,
  expected_files,
  result,
  wait_count,
  seen,                     \* the status by which the last poll left the loop
  wait_save,                \* how the save of the returning wait went
  exit_reason,              \* the log line by which the page was left
  wait_end,                 \* the log line by which the wait returned
  hist,                     \* what happened on the current page
  run_end,                  \* the log line by which download_playback ended
  returned,                 \* (c, p, f) of the returned mark_file_downloaded calls
  crashes,                  \* process stops so far
  interrupted,              \* signal_handler has run
  close_save                \* how the save of close() went

procVars == <<alive, pc, downloaded_files_db, downloaded_files_db_data,
              pending_downloads, completed_downloads, current_download_batch,
              current_channel, current_page>>
diskVars == <<ledgerFile, downloadDir, organizedDir>>
envVars == <<sessionValid, dl, transfer>>
loopVars == <<chanIdx, page, totalPages, retry_count>>
waitGhost == <<seen, wait_save>>
waitVars == <<last_progress, no_change_count, expected_files, result, wait_count,
              waitGhost>>
loopGhost == <<exit_reason, wait_end, hist, run_end>>
sigVars == <<interrupted, close_save>>
ghostVars == <<loopGhost, returned, crashes, sigVars>>
vars == <<procVars, diskVars, envVars, loopVars, waitVars, ghostVars>>

Handlers == 1..MaxDownloads
Channels == 1..NumChannels

\* no start-transfer click yet
NoTransfer == <<0, 0, 0, 0>>

NoDownload == [st |-> "none", f |-> None, r |-> None, tr |-> NoTransfer,
               end |-> None]
NoResult == [success |-> 0, failure |-> 0, completed |-> FALSE]
\* no status kept: no text, the stop button there, no alert
NoStatus == [info |-> None, stop |-> TRUE,
             alert |-> [vis |-> FALSE, parsed |-> FALSE, s |-> 0, f |-> 0]]
\* no re_login_and_resume call made
NoResume == [ret |-> FALSE, steps |-> <<>>, page |-> 0]
\* no login call made by main
NoLogin == [ret |-> FALSE, attempts |-> <<>>, sleeps |-> <<>>]
NoHist == [starts |-> 0, sleeps |-> <<>>, lost |-> FALSE, allfail |-> TRUE,
           resume |-> NoResume, login |-> NoLogin, calls |-> <<>>]

MissingFile == [kind |-> "missing", data |-> EmptyDb]
PartialFile == [kind |-> "partial", data |-> EmptyDb]
\* a file that holds a JSON object without the key "channels"
NoChannelsFile == [kind |-> "nochannels", data |-> [k \in {"files"} |-> <<>>]]
\* the ledger files a run can find: none, one that is not valid JSON, one
\* without "channels", and the ledger of an earlier run
InitialLedgerFiles ==
  {MissingFile, PartialFile, NoChannelsFile,
   [kind |-> "doc", data |-> MarkedDb(EmptyDb, 1, 1, FileA)]}

(***************************************************************************)
(* The ledger file.                                                        *)
(***************************************************************************)
\* what can happen to one save: written; open() raises; a write raises after
\* open() truncated the file; the process is stopped while writing
SaveOutcomes == {"ok", "err_open", "err_write", "kill"}

\* the save of close(): as above, or signal_handler runs while it writes and
\* sys.exit(130) leaves the function
CloseOutcomes == {"ok", "err_open", "err_write", "sigint"}

\* the ledger file after save_downloaded_files_db with outcome o:
\* open(path, "w") truncates the file, json.dump then writes the document
FileAfterSave(file, data, o) ==
  CASE o = "ok" -> [kind |-> "doc", data |-> data]
    [] o = "err_open" -> file
    [] o \in {"err_write", "kill", "sigint"} -> PartialFile

\* save_downloaded_files_db of ledger document data: nothing is written while
\* no file is set
SavedFileStale(data, o) ==
  IF downloaded_files_db
  THEN FileAfterSave(ledgerFile, ledgerFile.data, o)
  ELSE ledgerFile

SavedFile(data, o) ==
  IF downloaded_files_db THEN FileAfterSave(ledgerFile, data, o)
  ELSE ledgerFile

\* a save with outcome o runs and the process is stopped in it
KilledIn(saves, o) == o = "kill" /\ saves /\ downloaded_files_db

\* load_downloaded_files_db: the in-memory ledger read from the file; a
\* missing file, a json.load that raises and a document without "channels"
\* all give the empty ledger
LoadedDbUnchecked(file) ==
  IF file.kind \in {"doc", "nochannels"} THEN file.data ELSE EmptyDb

LoadedDb(file) ==
  CASE file.kind = "missing" -> EmptyDb
    [] file.kind = "partial" -> EmptyDb
    [] file.kind = "nochannels" -> EmptyDb
    [] file.kind = "doc" -> file.data

\* is_file_downloaded
is_file_downloadedByChannelKey(channel, pg, filename) ==
  IsDownloadedIn(downloaded_files_db_data, channel, channel, filename)

is_file_downloaded(channel, pg, filename) ==
  IsDownloadedIn(downloaded_files_db_data, channel, pg, filename)

\* check_file_exists
check_file_exists(filename) ==
  IF ~EndsWithMp4(filename) THEN FALSE
  ELSE IF ~ExistsMatch(filename) THEN FALSE
  ELSE ExpectedPath(filename) \in organizedDir

\* current_channel is not None and current_page is not None (0 stands for None)
ContextSet == current_channel # NoCtx /\ current_page # NoCtx

(***************************************************************************)
(* A stopped process: its memory is gone, the downloads in flight with it. *)
(***************************************************************************)
Stopped(file) ==
  /\ alive' = FALSE
  /\ pc' = "stopped"
  /\ downloaded_files_db' = FALSE
  /\ downloaded_files_db_data' = EmptyDb
  /\ pending_downloads' = {}
  /\ completed_downloads' = <<>>
  /\ current_download_batch' = <<>>
  /\ current_channel' = NoCtx
  /\ current_page' = NoCtx
  /\ ledgerFile' = file
  /\ sessionValid' = FALSE
  /\ dl' = [h \in Handlers |->
              IF dl[h].st \in {"saving", "stored"}
              THEN [dl[h] EXCEPT !.st = "done", !.end = "stopped"]
              ELSE dl[h]]
  /\ transfer' = NoTransfer
  /\ chanIdx' = 0 /\ page' = 0 /\ totalPages' = 0 /\ retry_count' = 0
  /\ last_progress' = "" /\ no_change_count' = 0 /\ expected_files' = 0
  /\ result' = NoResult /\ wait_count' = 0
  /\ seen' = NoStatus /\ wait_save' = None
  /\ exit_reason' = None /\ wait_end' = None /\ hist' = NoHist
  /\ run_end' = None
  /\ crashes' = crashes + 1
  /\ UNCHANGED <<downloadDir, organizedDir, returned, sigVars>>

\* the process is stopped from outside between two steps
Crash ==
  /\ alive
  /\ crashes < MaxCrashes
  /\ Stopped(ledgerFile)

\* the program is started again for the same target date: DeviceScraper.__init__
Restart ==
  /\ ~alive
  /\ pc = "stopped"
  /\ alive' = TRUE
  /\ pc' = "main"
  /\ UNCHANGED <<downloaded_files_db, downloaded_files_db_data,
                 pending_downloads, completed_downloads, current_download_batch,
                 current_channel, current_page>>
  /\ interrupted' = FALSE
  /\ close_save' = None
  /\ UNCHANGED <<diskVars, envVars, loopVars, waitVars>>
  /\ UNCHANGED <<loopGhost, returned, crashes>>

(***************************************************************************)
(* _handle_download.  A download event runs the handler up to its first    *)
(* suspension; it is suspended in save_as until the browser has written    *)
(* the file, and resumed some time later.                                  *)
(***************************************************************************)
\* the download event is given to the first unused download object
FirstUnused(h) ==
  /\ dl[h].st = "none"
  /\ \A g \in Handlers : g < h => dl[g].st # "none"

\* the filename is appended to the ledger of the current context, if one is set
MarkedHereIfParsed(filename) ==
  IF ContextSet /\ (OrganizeMatch(filename) \/ ExistsMatch(filename))
  THEN MarkedDb(downloaded_files_db_data, current_channel, current_page, filename)
  ELSE downloaded_files_db_data

MarkedHere(filename) ==
  IF ContextSet
  THEN MarkedDb(downloaded_files_db_data, current_channel, current_page, filename)
  ELSE downloaded_files_db_data

\* mark_file_downloaded is called and appends, and so saves
MarkSaves(filename) ==
  /\ ContextSet
  /\ MarkAppends(downloaded_files_db_data, current_channel, current_page, filename)

\* the returned mark_file_downloaded calls after one more for filename
ReturnedWith(filename) ==
  IF ContextSet
  THEN returned \cup {<<current_channel, current_page, filename>>}
  ELSE returned

\* lines 369-404: from the event to the cancel or to the await of save_as
HandleDownload(h, f, o) ==
  /\ alive /\ transfer # NoTransfer
  /\ FirstUnused(h)
  /\ LET inDb == ContextSet
                 /\ is_file_downloaded(current_channel, current_page, f)
         exists == check_file_exists(f)
         saves == ~inDb /\ exists /\ MarkSaves(f)
     IN
       IF KilledIn(saves, o)
       THEN crashes < MaxCrashes
            /\ Stopped(FileAfterSave(ledgerFile, MarkedHere(f), o))
       ELSE
         /\ (saves /\ downloaded_files_db) \/ o = "ok"
         /\ IF inDb
            THEN \* [SKIP] Already in DB: removed from pending, cancelled
                 /\ dl' = [dl EXCEPT ![h] = [st |-> "done", f |-> f, r |-> None,
                                             tr |-> transfer, end |-> "skip_db"]]
                 /\ UNCHANGED <<pending_downloads, completed_downloads,
                                downloaded_files_db_data, ledgerFile, returned>>
            ELSE IF exists
            THEN \* [SKIP] File exists in organized dir: marked, cancelled
                 /\ dl' = [dl EXCEPT ![h] = [st |-> "done", f |-> f, r |-> None,
                                             tr |-> transfer, end |-> "skip_exists"]]
                 /\ downloaded_files_db_data' = MarkedHere(f)
                 /\ ledgerFile' = IF saves THEN SavedFile(MarkedHere(f), o)
                                  ELSE ledgerFile
                 /\ returned' = ReturnedWith(f)
                 /\ completed_downloads' = Append(completed_downloads, f)
                 /\ UNCHANGED pending_downloads
            ELSE \* await download.save_as(save_path)
                 /\ pending_downloads' = pending_downloads \cup {h}
                 /\ dl' = [dl EXCEPT ![h] = [st |-> "saving", f |-> f, r |-> None,
                                             tr |-> transfer, end |-> None]]
                 /\ UNCHANGED <<completed_downloads, downloaded_files_db_data,
                                ledgerFile, returned>>
         /\ UNCHANGED <<alive, pc, downloaded_files_db, current_download_batch,
                        current_channel, current_page>>
         /\ UNCHANGED <<downloadDir, organizedDir, sessionValid, transfer>>
         /\ UNCHANGED <<loopVars, waitVars, loopGhost, crashes, sigVars>>

\* the browser finishes save_as: the file is written (with data, or empty), or
\* save_as raises
SaveAsCompletes(h, r) ==
  /\ alive
  /\ dl[h].st = "saving"
  /\ dl' = [dl EXCEPT ![h].st = "stored", ![h].r = r]
  /\ downloadDir' = IF r = "raise" THEN downloadDir
                    ELSE [downloadDir EXCEPT ![dl[h].f] = r]
  /\ UNCHANGED <<procVars, ledgerFile, organizedDir, sessionValid, transfer>>
  /\ UNCHANGED <<loopVars, waitVars, ghostVars>>

\* _organize_single_file: the files after organizing filename
OrganizedFiles(filename) ==
  IF ~EndsWithMp4(filename) THEN organizedDir
  ELSE IF ~OrganizeMatch(filename) THEN organizedDir
  ELSE organizedDir \cup {OrganizeTarget(filename)}

DownloadsAfterOrganize(filename) ==
  IF ~EndsWithMp4(filename) THEN downloadDir
  ELSE IF ~OrganizeMatch(filename) THEN downloadDir
  ELSE [downloadDir EXCEPT ![filename] = "none"]

\* save_path.exists() with file_size > 0, after save_as returned
LandedAnySize(h) == dl[h].r # "raise" /\ downloadDir[dl[h].f] # "none"

Landed(h) == dl[h].r # "raise" /\ downloadDir[dl[h].f] = "data"

PendingWithoutUnlessRaised(h) ==
  IF dl[h].r = "raise" THEN pending_downloads ELSE pending_downloads \ {h}

\* if download in self.pending_downloads: self.pending_downloads.remove(download)
PendingWithout(h) == pending_downloads \ {h}

\* lines 406-447: the handler after save_as returned or raised
HandleDownloadResume(h, o) ==
  /\ alive
  /\ dl[h].st = "stored"
  /\ LET f == dl[h].f
         saves == Landed(h) /\ MarkSaves(f)
     IN
       IF KilledIn(saves, o)
       THEN crashes < MaxCrashes
            /\ Stopped(FileAfterSave(ledgerFile, MarkedHere(f), o))
       ELSE
         /\ (saves /\ downloaded_files_db) \/ o = "ok"
         /\ IF dl[h].r = "raise"
            THEN \* except Exception: logged
                 /\ dl' = [dl EXCEPT ![h].st = "done", ![h].end = "error"]
                 /\ UNCHANGED <<downloaded_files_db_data, ledgerFile, returned,
                                completed_downloads, current_download_batch,
                                organizedDir, downloadDir>>
            ELSE IF Landed(h)
            THEN \* File saved: marked, moved to completed, organized
                 /\ dl' = [dl EXCEPT ![h].st = "done", ![h].end = "saved"]
                 /\ downloaded_files_db_data' = MarkedHere(f)
                 /\ ledgerFile' = IF saves THEN SavedFile(MarkedHere(f), o)
                                  ELSE ledgerFile
                 /\ returned' = ReturnedWith(f)
                 /\ completed_downloads' = Append(completed_downloads, f)
                 /\ current_download_batch' = Append(current_download_batch, f)
                 /\ organizedDir' = OrganizedFiles(f)
                 /\ downloadDir' = DownloadsAfterOrganize(f)
            ELSE IF downloadDir[f] = "none"
            THEN \* WARNING: File not found after save
                 /\ dl' = [dl EXCEPT ![h].st = "done", ![h].end = "missing"]
                 /\ UNCHANGED <<downloaded_files_db_data, ledgerFile, returned,
                                completed_downloads, current_download_batch,
                                organizedDir, downloadDir>>
            ELSE \* WARNING: File has 0 bytes: save_path.unlink()
                 /\ dl' = [dl EXCEPT ![h].st = "done", ![h].end = "zero"]
                 /\ downloadDir' = [downloadDir EXCEPT ![f] = "none"]
                 /\ UNCHANGED <<downloaded_files_db_data, ledgerFile, returned,
                                completed_downloads, current_download_batch,
                                organizedDir>>
         /\ pending_downloads' = PendingWithout(h)
         /\ UNCHANGED <<alive, pc, downloaded_files_db, current_channel,
                        current_page>>
         /\ UNCHANGED <<sessionValid, transfer>>
         /\ UNCHANGED <<loopVars, waitVars, loopGhost, crashes, sigVars>>

(***************************************************************************)
(* The environment of the driving loop.                                    *)
(***************************************************************************)
\* what check_session can return: a session that was lost stays lost
SessionObs == IF sessionValid THEN BOOLEAN ELSE {FALSE}

\* re_login_and_resume: all steps succeed; login fails; a replayed step fails
ResumeOutcomes == {"ok", "login_failed", "nav_failed"}

\* the awaited steps of re_login_and_resume whose result it tests; a step
\* fails when it returns False (the page jump: when page.evaluate raises)
ResumeSteps == {"login", "select_channel", "set_date_range", "query_playback",
                "jump"}
ResumeInputs == [ResumeSteps -> BOOLEAN]

Step(name, ok) == [step |-> name, ok |-> ok]

re_login_and_resumeDropsQueryResult(ok, page_num) ==
  LET l == <<Step("login", ok["login"])>>
      c == Append(l, Step("select_channel", ok["select_channel"]))
      d == Append(c, Step("set_date_range", ok["set_date_range"]))
      q == Append(d, Step("query_playback", ok["query_playback"]))
      j == Append(q, Step("jump", ok["jump"]))
  IN IF ~ok["login"] THEN [ret |-> FALSE, steps |-> l, page |-> page_num]
     ELSE IF ~ok["select_channel"]
     THEN [ret |-> FALSE, steps |-> c, page |-> page_num]
     ELSE IF ~ok["set_date_range"]
     THEN [ret |-> FALSE, steps |-> d, page |-> page_num]
     ELSE IF page_num > 1
     THEN [ret |-> ok["jump"], steps |-> j, page |-> page_num]
     ELSE [ret |-> TRUE, steps |-> q, page |-> page_num]

\* re_login_and_resume(channel_idx, start_datetime, end_datetime, page_num):
\* the value returned and the steps run, in order.  The two menu clicks
\* between login and select_channel go through click_xpath, whose result is
\* not tested, and are no step here.
re_login_and_resume(ok, page_num) ==
  LET l == <<Step("login", ok["login"])>>
      c == Append(l, Step("select_channel", ok["select_channel"]))
      d == Append(c, Step("set_date_range", ok["set_date_range"]))
      q == Append(d, Step("query_playback", ok["query_playback"]))
      j == Append(q, Step("jump", ok["jump"]))
  IN IF ~ok["login"]
     THEN \* if not await self.login("scrapper", "sc@10001"): return False
          [ret |-> FALSE, steps |-> l, page |-> page_num]
     ELSE IF ~ok["select_channel"]
     THEN [ret |-> FALSE, steps |-> c, page |-> page_num]
     ELSE IF ~ok["set_date_range"]
     THEN [ret |-> FALSE, steps |-> d, page |-> page_num]
     ELSE IF ~ok["query_playback"]
     THEN [ret |-> FALSE, steps |-> q, page |-> page_num]
     ELSE IF page_num > 1
     THEN \* except Exception: return False
          [ret |-> ok["jump"], steps |-> j, page |-> page_num]
     ELSE [ret |-> TRUE, steps |-> q, page |-> page_num]

\* what the caller sees of a re_login_and_resume call
ResumeOutcome(rr) ==
  IF rr.ret THEN "ok"
  ELSE IF Len(rr.steps) = 1 THEN "login_failed"
  ELSE "nav_failed"

\* the calls that can be made when the session was seen lost, over every
\* outcome of the steps; no call otherwise
ResumeRuns ==
  [page_num \in 1..MaxPages |->
     {re_login_and_resume(ok, page_num) : ok \in ResumeInputs}]

ResumeCalls(obs, page_num) == IF obs THEN {NoResume} ELSE ResumeRuns[page_num]

Tallies == 0..MaxTally

\* the alert as one poll reads it: not visible; visible without both tallies
\* in its text; visible with "Success s" and "Failure f"
NoAlert == [vis |-> FALSE, parsed |-> FALSE, s |-> 0, f |-> 0]
Alerts ==
  {NoAlert, [vis |-> TRUE, parsed |-> FALSE, s |-> 0, f |-> 0]}
    \cup {[vis |-> TRUE, parsed |-> TRUE, s |-> s, f |-> f] :
            s \in Tallies, f \in Tallies}

\* the progress text: absent, empty, without "(n/m)", "(0/1)", "(1/1)"
InfoTexts == {None, "", "Preparing", "Downloading (0/1)", "Downloading (1/1)"}

\* re.search(r"\((\d+)/(\d+)\)", text)
ProgressOf(text) ==
  CASE text = "Downloading (0/1)" -> [match |-> TRUE, current |-> 0, total |-> 1]
    [] text = "Downloading (1/1)" -> [match |-> TRUE, current |-> 1, total |-> 1]
    [] OTHER -> [match |-> FALSE, current |-> 0, total |-> 0]

Statuses == [info : InfoTexts, stop : BOOLEAN, alert : Alerts]

(***************************************************************************)
(* main and download_playback.                                             *)
(***************************************************************************)
At(p) == alive /\ pc = p

\* the loop is at position p of channel index i and page g
Goto(p, i, g, t) ==
  /\ pc' = p /\ chanIdx' = i /\ page' = g /\ totalPages' = t

\* for channel in active_channels: the next channel, or the end of the flow
NextChannelEndsRun ==
  Goto("closing", chanIdx, 0, 0) /\ run_end' = "completed"

NextChannel ==
  IF chanIdx < NumChannels
  THEN Goto("chan", chanIdx + 1, 0, 0) /\ run_end' = run_end
  ELSE Goto("closing", chanIdx, 0, 0) /\ run_end' = "completed"

\* for page in range(1, total + 1): the next page, or the end of the channel
NextPage ==
  IF page < totalPages
  THEN Goto("page", chanIdx, page + 1, totalPages) /\ run_end' = run_end
  ELSE NextChannel

\* login: max_retries = 3, base_delay = 5
login_max_retries == 3
base_delay == 5

\* how one attempt of login ends: the user logo shows; the logo does not show
\* (inner except PlaywrightTimeout); another wait times out; another error
LoginOutcomes == {"ok", "not_verified", "timeout", "error"}
LoginInputs == [0..(login_max_retries - 1) -> LoginOutcomes]

LoginDelayFromBase(attempt) == base_delay * (2 ^ (attempt - 1))

\* delay = base_delay * (2 ** attempt)
LoginDelay(attempt) == base_delay * (2 ^ attempt)

\* for attempt in range(max_retries): the attempts made and the sleeps taken
\* from this attempt on
RECURSIVE LoginAttempt(_, _, _, _)
LoginAttempt(outs, attempt, tried, slept) ==
  LET s == IF attempt > 0 THEN Append(slept, LoginDelay(attempt)) ELSE slept
      t == Append(tried, outs[attempt])
  IN IF outs[attempt] = "ok"
     THEN [ret |-> TRUE, attempts |-> t, sleeps |-> s]
     ELSE IF attempt < login_max_retries - 1
     THEN \* continue
          LoginAttempt(outs, attempt + 1, t, s)
     ELSE [ret |-> FALSE, attempts |-> t, sleeps |-> s]

login(outs) == LoginAttempt(outs, 0, <<>>, <<>>)

\* the login calls there can be, over every outcome of the attempts
LoginRuns == {login(outs) : outs \in LoginInputs}

\* main: initialize, login
Main ==
  /\ At("main")
  /\ \E lr \in LoginRuns :
     LET ok == lr.ret IN
       /\ sessionValid' = ok
       /\ pc' = IF ok THEN "dp_start" ELSE "closing"
       /\ run_end' = IF ok THEN None ELSE "auth_failed"
       /\ hist' = [hist EXCEPT !.login = lr]
  /\ UNCHANGED <<alive, downloaded_files_db, downloaded_files_db_data,
                 pending_downloads, completed_downloads, current_download_batch,
                 current_channel, current_page>>
  /\ UNCHANGED <<diskVars, dl, transfer, loopVars, waitVars>>
  /\ UNCHANGED <<exit_reason, wait_end, returned, crashes, sigVars>>

\* download_playback up to the channel loop: get_channel_list,
\* set_download_date (which loads the ledger of the date)
DownloadPlaybackStart ==
  /\ At("dp_start")
  /\ \E found \in BOOLEAN :
       IF found
       THEN /\ downloaded_files_db' = TRUE
            /\ downloaded_files_db_data' = LoadedDb(ledgerFile)
            /\ Goto("chan", 1, 0, 0)
            /\ run_end' = run_end
       ELSE /\ Goto("closing", 0, 0, 0)
            /\ run_end' = "no_channels"
            /\ UNCHANGED <<downloaded_files_db, downloaded_files_db_data>>
  /\ hist' = [hist EXCEPT !.login = NoLogin]
  /\ UNCHANGED <<alive, pending_downloads, completed_downloads,
                 current_download_batch, current_channel, current_page>>
  /\ UNCHANGED <<diskVars, envVars, retry_count, waitVars>>
  /\ UNCHANGED <<exit_reason, wait_end, returned, crashes, sigVars>>

\* lines 1163-1194: one channel up to its pagination
ChannelStart ==
  /\ At("chan")
  /\ current_channel' = chanIdx
  /\ \E obs \in SessionObs, r \in ResumeOutcomes, nav \in BOOLEAN,
        total \in 0..MaxPages :
     \E rr \in ResumeCalls(obs, 1) :
       /\ obs => r = "ok"
       /\ ~obs => r = ResumeOutcome(rr)
       /\ ~obs => nav
       /\ hist' = [hist EXCEPT !.resume = rr]
       /\ sessionValid' = IF obs THEN TRUE ELSE r # "login_failed"
       /\ IF (IF obs THEN nav ELSE r = "ok")
          THEN IF total >= 1
               THEN Goto("page", chanIdx, 1, total) /\ run_end' = run_end
               ELSE total = 0 /\ NextChannel
          ELSE total = 0 /\ NextChannel
  /\ UNCHANGED <<alive, downloaded_files_db, downloaded_files_db_data,
                 pending_downloads, completed_downloads, current_download_batch,
                 current_page>>
  /\ UNCHANGED <<diskVars, dl, transfer, retry_count, waitVars>>
  /\ UNCHANGED <<exit_reason, wait_end, returned, crashes, sigVars>>

\* lines 1196-1250: one page up to its retry loop
PageStart ==
  /\ At("page")
  /\ current_page' = page
  /\ \E obs \in SessionObs, r \in ResumeOutcomes, jump \in {"ok", "raise"},
        rows \in BOOLEAN :
     \E rr \in ResumeCalls(obs, page) :
       /\ obs => r = "ok"
       /\ ~obs => r = ResumeOutcome(rr)
       /\ (~obs \/ page = 1) => jump = "ok"
       /\ sessionValid' = IF obs THEN TRUE ELSE r # "login_failed"
       /\ IF ~obs /\ r # "ok"
          THEN \* Failed to resume to page, skipping rest of channel
               /\ rows /\ NextChannel
               /\ exit_reason' = "page_resume_failed"
               /\ hist' = [hist EXCEPT !.resume = rr]
               /\ UNCHANGED retry_count
          ELSE IF jump = "raise"
          THEN \* except Exception: Error in DownloadPlayback
               /\ rows /\ Goto("closing", chanIdx, page, totalPages)
               /\ run_end' = "error"
               /\ exit_reason' = "page_jump_raised"
               /\ hist' = [hist EXCEPT !.resume = rr]
               /\ UNCHANGED retry_count
          ELSE IF ~rows
          THEN \* No files found on page
               /\ NextPage
               /\ exit_reason' = "no_files"
               /\ hist' = [hist EXCEPT !.resume = rr]
               /\ UNCHANGED retry_count
          ELSE /\ retry_count' = 0
               /\ hist' = [NoHist EXCEPT !.resume = rr]
               /\ exit_reason' = None
               /\ Goto("retry", chanIdx, page, totalPages)
               /\ run_end' = run_end
  /\ UNCHANGED <<alive, downloaded_files_db, downloaded_files_db_data,
                 pending_downloads, completed_downloads, current_download_batch,
                 current_channel>>
  /\ UNCHANGED <<diskVars, dl, transfer, waitVars, wait_end, returned, crashes, sigVars>>

\* retry_delay = 5 * (2 ** (retry_count - 1))
RetryDelayDoubled(n) == 5 * (2 ^ n)

RetryDelay(n) == 5 * (2 ^ (n - 1))

\* where a break of the retry loop leads: to the statements after the loop
AfterBreakEndsRun(reason) ==
  IF reason = "not_completed" THEN "closing" ELSE "page_end"

AfterBreak(reason) == "page_end"

\* the retry loop is left by a break
Break(reason) ==
  /\ pc' = AfterBreak(reason)
  /\ exit_reason' = reason

Call(name, ret) == [call |-> name, ret |-> ret]

IterationCallsPastFailedResume(obs, resumed, sel, started) ==
  LET a == <<Call("check_session", obs)>>
      b == IF obs THEN a ELSE Append(a, Call("re_login_and_resume", resumed))
      c == Append(b, Call("select_all_files", sel))
  IN IF ~sel THEN c ELSE Append(c, Call("start_download", started))

\* lines 1252-1279: the calls one iteration of the retry loop makes up to
\* start_download, in order, with what each returned
IterationCalls(obs, resumed, sel, started) ==
  LET a == <<Call("check_session", obs)>>
      b == IF obs THEN a ELSE Append(a, Call("re_login_and_resume", resumed))
  IN IF ~obs /\ ~resumed
     THEN \* Failed to resume, aborting page
          b
     ELSE LET c == Append(b, Call("select_all_files", sel))
          IN IF ~sel
             THEN \* Failed to select all files
                  c
             ELSE Append(c, Call("start_download", started))

\* lines 1252-1279: one iteration of the retry loop up to the wait
RetryIteration ==
  /\ At("retry")
  /\ retry_count < max_retries
  /\ \E obs \in SessionObs, r \in ResumeOutcomes, sel \in BOOLEAN,
        start \in {"ok", "raise_first", "raise_last"} :
     \E rr \in ResumeCalls(obs, page) :
       /\ obs => r = "ok"
       /\ ~obs => r = ResumeOutcome(rr)
       /\ (~obs /\ r # "ok") => (sel /\ start = "ok")
       /\ ~sel => start = "ok"
       /\ sessionValid' = IF obs THEN TRUE ELSE r # "login_failed"
       /\ IF ~obs /\ r # "ok"
          THEN \* Failed to resume, aborting page
               /\ Break("resume_failed")
               /\ hist' = [hist EXCEPT !.lost = TRUE,
                                        !.resume = rr,
                                        !.calls = IterationCalls(obs, rr.ret, sel,
                                                                 start = "ok")]
               /\ UNCHANGED <<current_download_batch, transfer, waitVars>>
          ELSE LET slept == IF retry_count > 0
                            THEN Append(hist.sleeps, RetryDelay(retry_count))
                            ELSE hist.sleeps
                   h1 == [hist EXCEPT !.lost = hist.lost \/ ~obs,
                                      !.sleeps = slept,
                                      !.resume = rr,
                                      !.calls = IterationCalls(obs, rr.ret, sel,
                                                               start = "ok")]
               IN
                 IF ~sel
                 THEN \* Failed to select all files
                      /\ Break("select_failed")
                      /\ hist' = h1
                      /\ UNCHANGED <<current_download_batch, transfer, waitVars>>
                 ELSE IF start # "ok"
                 THEN \* Failed to start download
                      /\ Break("start_failed")
                      /\ hist' = [h1 EXCEPT !.starts = h1.starts + 1]
                      /\ current_download_batch' =
                           IF start = "raise_first" THEN current_download_batch
                           ELSE <<>>
                      /\ UNCHANGED <<transfer, waitVars>>
                 ELSE \* start_download, then wait_for_download_completion
                      /\ current_download_batch' = <<>>
                      /\ transfer' = <<crashes, chanIdx, page, hist.starts + 1>>
                      /\ hist' = [h1 EXCEPT !.starts = h1.starts + 1]
                      /\ last_progress' = ""
                      /\ no_change_count' = 0
                      /\ expected_files' = 0
                      /\ result' = NoResult
                      /\ wait_count' = 0
                      /\ seen' = NoStatus
                      /\ wait_save' = None
                      /\ pc' = "wait_poll"
                      /\ exit_reason' = exit_reason
  /\ UNCHANGED <<alive, downloaded_files_db, downloaded_files_db_data,
                 pending_downloads, completed_downloads, current_channel,
                 current_page>>
  /\ UNCHANGED <<diskVars, dl, loopVars, wait_end, run_end, returned, crashes, sigVars>>

(***************************************************************************)
(* wait_for_download_completion.  The clock of the event loop is an input: *)
(* the time the awaited calls take is not bounded by the program, so each  *)
(* evaluation of the loop condition may find the timeout elapsed.          *)
(***************************************************************************)
\* the wait returns to download_playback; its locals end with it
Return(how) ==
  /\ pc' = "reconcile"
  /\ wait_end' = how
  /\ last_progress' = ""
  /\ no_change_count' = 0
  /\ expected_files' = 0
  /\ wait_count' = 0

\* save_downloaded_files_db(force_log=True) with outcome o, then return res
SaveAndReturnLanded(how, res, o) ==
  IF KilledIn(TRUE, o)
  THEN crashes < MaxCrashes
       /\ Stopped(FileAfterSave(ledgerFile, downloaded_files_db_data, o))
  ELSE /\ downloaded_files_db \/ o = "ok"
       /\ ledgerFile' = SavedFile(downloaded_files_db_data, o)
       /\ wait_save' = o
       /\ result' = [res EXCEPT !.success = Len(current_download_batch)]
       /\ Return(how)
       /\ UNCHANGED <<alive, downloaded_files_db, downloaded_files_db_data,
                      pending_downloads, completed_downloads,
                      current_download_batch, current_channel, current_page>>
       /\ UNCHANGED <<downloadDir, organizedDir, dl, transfer, loopVars>>
       /\ UNCHANGED <<exit_reason, hist, run_end, returned, crashes, sigVars>>

SaveAndReturn(how, res, o) ==
  IF KilledIn(TRUE, o)
  THEN crashes < MaxCrashes
       /\ Stopped(FileAfterSave(ledgerFile, downloaded_files_db_data, o))
  ELSE /\ downloaded_files_db \/ o = "ok"
       /\ ledgerFile' = SavedFile(downloaded_files_db_data, o)
       /\ wait_save' = o
       /\ result' = res
       /\ Return(how)
       /\ UNCHANGED <<alive, downloaded_files_db, downloaded_files_db_data,
                      pending_downloads, completed_downloads,
                      current_download_batch, current_channel, current_page>>
       /\ UNCHANGED <<downloadDir, organizedDir, dl, transfer, loopVars>>
       /\ UNCHANGED <<exit_reason, hist, run_end, returned, crashes, sigVars>>

\* the status v is kept for the caller, unless the save stops the process
Observed(v, o) == IF KilledIn(TRUE, o) THEN TRUE ELSE seen' = v

\* the memory and the disk are left as they are
WaitFrame ==
  /\ UNCHANGED <<alive, downloaded_files_db, downloaded_files_db_data,
                 pending_downloads, completed_downloads,
                 current_download_batch, current_channel, current_page>>
  /\ UNCHANGED <<diskVars, dl, transfer, loopVars>>
  /\ UNCHANGED <<exit_reason, hist, run_end, returned, crashes, sigVars>>

Min(a, b) == IF a < b THEN a ELSE b

\* landed >= expected with nothing pending
BatchSettledWhilePending ==
  Len(current_download_batch) >= expected_files

BatchSettled ==
  /\ Len(current_download_batch) >= expected_files
  /\ Cardinality(pending_downloads) = 0

\* lines 896-903: the tallies of the alert become the result
AlertResultPending(a) == [success |-> a.s, failure |-> a.f, completed |-> FALSE]

AlertResult(a) == [success |-> a.s, failure |-> a.f, completed |-> TRUE]

\* lines 1025-1029: more than 30 unchanged polls (then more than 60 s have
\* passed, each poll being followed by a sleep of 2 s) and no stop button
StalledWhileStopShown(n, stop) == n > StallPolls

Stalled(n, stop) == n > StallPolls /\ ~stop

\* line 1037: no stop button and no progress element
StopGoneOrEmptyText(st) == ~st.stop /\ st.info \in {None, ""}

StopGone(st) == ~st.stop /\ st.info = None

\* lines 1048-1052: the result returned when the loop condition fails
TimeoutResultCompleted(res) == [res EXCEPT !.completed = TRUE]

TimeoutResult(res) == [res EXCEPT !.completed = FALSE]

\* lines 867-1052: one iteration of the polling loop, or its timeout.  The
\* paths into the waits for the alert and for the files never read
\* last_progress and no_change_count again: they are cleared there.
WaitPoll ==
  /\ At("wait_poll")
  /\ \E timedOut \in BOOLEAN, obs \in SessionObs,
        st \in Statuses, raise \in BOOLEAN, o \in SaveOutcomes :
       LET info == st.info
           truthy == info # None /\ info # ""
           changed == truthy /\ info # last_progress
           ncc == IF ~truthy THEN no_change_count
                  ELSE IF changed THEN 0
                  ELSE Min(no_change_count + 1, StallPolls + 1)
           prog == ProgressOf(info)
       IN
         IF timedOut
         THEN \* Download timeout
              /\ obs /\ ~raise /\ st = [info |-> None, stop |-> TRUE, alert |-> NoAlert]
              /\ sessionValid' = sessionValid
              /\ Observed(st, o)
              /\ SaveAndReturn("timeout", TimeoutResult(result), o)
         ELSE IF ~obs
         THEN \* Session lost during download - aborting
              /\ ~raise /\ o = "ok"
              /\ st = [info |-> None, stop |-> TRUE, alert |-> NoAlert]
              /\ sessionValid' = FALSE
              /\ result' = [result EXCEPT !.completed = FALSE]
              /\ Return("session_lost")
              /\ seen' = st
              /\ wait_save' = None
              /\ WaitFrame
         ELSE IF raise
         THEN \* except Exception: Error waiting for download completion
              /\ st = [info |-> None, stop |-> TRUE, alert |-> NoAlert]
              /\ sessionValid' = sessionValid
              /\ Observed(st, o)
              /\ SaveAndReturn("error", NoResult, o)
         ELSE IF st.alert.vis /\ st.alert.parsed
         THEN \* Download alert with both tallies
              /\ o = "ok" /\ st.info = None /\ st.stop
              /\ sessionValid' = sessionValid
              /\ expected_files' = st.alert.s
              /\ result' = AlertResult(st.alert)
              /\ wait_count' = 0
              /\ pc' = "wait_alert"
              /\ wait_end' = wait_end
              /\ seen' = st
              /\ wait_save' = wait_save
              /\ WaitFrame
              /\ last_progress' = ""
              /\ no_change_count' = 0
         ELSE IF truthy /\ prog.match /\ prog.current = prog.total
                 /\ prog.total > 0
         THEN \* All files queued for download
              /\ o = "ok" /\ st.stop /\ ~st.alert.vis
              /\ sessionValid' = sessionValid
              /\ last_progress' = ""
              /\ no_change_count' = 0
              /\ expected_files' = prog.total
              /\ wait_count' = 0
              /\ pc' = "wait_queued_alert"
              /\ wait_end' = wait_end
              /\ result' = result
              /\ seen' = st
              /\ wait_save' = wait_save
              /\ WaitFrame
         ELSE IF truthy /\ Stalled(ncc, st.stop)
         THEN \* Download progress unchanged for 60s, completing: more than
              \* 30 unchanged polls, each followed by a sleep of 2 s
              /\ ~st.alert.vis
              /\ sessionValid' = sessionValid
              /\ Observed(st, o)
              /\ SaveAndReturn("stall", [result EXCEPT !.completed = TRUE], o)
         ELSE IF StopGone(st)
         THEN \* Download completed (stop button disappeared)
              /\ ~st.alert.vis
              /\ sessionValid' = sessionValid
              /\ Observed(st, o)
              /\ SaveAndReturn("stop_gone", [result EXCEPT !.completed = TRUE], o)
         ELSE \* await asyncio.sleep(2)
              /\ o = "ok" /\ ~st.alert.parsed
              /\ sessionValid' = sessionValid
              /\ last_progress' = IF changed THEN info ELSE last_progress
              /\ no_change_count' = ncc
              /\ pc' = pc
              /\ UNCHANGED <<expected_files, result, wait_count, wait_end>>
              /\ seen' = NoStatus
              /\ wait_save' = wait_save
              /\ WaitFrame

NextTickSame(n) == n

\* for wait_count in range(...): the counter of the next round
NextTick(n) == n + 1

\* lines 910-936: one round of the wait for the files after the alert
WaitAlertTick ==
  /\ At("wait_alert")
  /\ \E o \in SaveOutcomes :
       IF wait_count < AlertWaitTicks /\ ~BatchSettled
       THEN /\ o = "ok"
            /\ wait_count' = NextTick(wait_count)
            /\ UNCHANGED <<pc, sessionValid, last_progress, no_change_count,
                           expected_files, result, wait_end, waitGhost>>
            /\ WaitFrame
       ELSE /\ Observed(seen, o)
            /\ SaveAndReturn(IF wait_count < AlertWaitTicks THEN "alert"
                             ELSE "alert_timeout", result, o)
            /\ UNCHANGED sessionValid

\* lines 961-989: one round of the wait for the alert after "(n/n)"
WaitQueuedAlertTick ==
  /\ At("wait_queued_alert")
  /\ \E showing \in BOOLEAN, a \in Alerts, text \in BOOLEAN, o \in SaveOutcomes :
       IF wait_count < QueuedAlertTicks /\ showing /\ ~text
       THEN \* result_text is None: re.search raises, caught by the outer except
            /\ a = NoAlert
            /\ Observed([seen EXCEPT !.alert.vis = TRUE], o)
            /\ SaveAndReturn("error", NoResult, o)
            /\ UNCHANGED sessionValid
       ELSE /\ o = "ok"
            /\ IF wait_count < QueuedAlertTicks /\ showing
               THEN \* the alert shows: its text is read and parsed; break
                    /\ a.vis
                    /\ result' = IF a.parsed
                                 THEN [success |-> a.s, failure |-> a.f,
                                       completed |-> TRUE]
                                 ELSE result
                    /\ wait_count' = 0
                    /\ pc' = "wait_queued_files"
                    /\ seen' = [seen EXCEPT !.alert = a]
               ELSE IF wait_count < QueuedAlertTicks
               THEN /\ a = NoAlert /\ text
                    /\ wait_count' = NextTick(wait_count)
                    /\ UNCHANGED <<pc, result, seen>>
               ELSE /\ a = NoAlert /\ text /\ ~showing
                    /\ wait_count' = 0
                    /\ pc' = "wait_queued_files"
                    /\ result' = result
                    /\ seen' = seen
            /\ UNCHANGED <<sessionValid, last_progress, no_change_count,
                           expected_files, wait_end, wait_save>>
            /\ WaitFrame

\* lines 993-1019: one round of the wait for the files after "(n/n)"
WaitQueuedFilesTick ==
  /\ At("wait_queued_files")
  /\ \E o \in SaveOutcomes :
       IF wait_count < QueuedFilesTicks /\ ~BatchSettled
       THEN /\ o = "ok"
            /\ wait_count' = NextTick(wait_count)
            /\ UNCHANGED <<pc, sessionValid, last_progress, no_change_count,
                           expected_files, result, wait_end, waitGhost>>
            /\ WaitFrame
       ELSE /\ Observed(seen, o)
            /\ SaveAndReturn(IF wait_count < QueuedFilesTicks THEN "queued"
                             ELSE "queued_timeout", result, o)
            /\ UNCHANGED sessionValid

NextRetryCountSame(n) == n

\* retry_count += 1
NextRetryCount(n) == n + 1

BatchVerdictOfTallies(res) ==
  IF res.failure > 0 THEN "failed" ELSE "success"

\* lines 1284-1310: what download_playback makes of the result of the wait
BatchVerdict(res) ==
  IF ~res.completed THEN "not_completed"
  ELSE IF res.failure > 0 THEN "failed"
  ELSE "success"

\* lines 1284-1310: the result of the batch decides about the retry
Reconcile ==
  /\ At("reconcile")
  /\ hist' = [hist EXCEPT !.lost = hist.lost \/ wait_end = "session_lost",
                          !.allfail = hist.allfail /\ result.completed
                                      /\ result.failure > 0]
  /\ IF BatchVerdict(result) = "not_completed"
     THEN Break("not_completed") /\ retry_count' = retry_count
     ELSE IF BatchVerdict(result) = "failed"
     THEN /\ retry_count' = NextRetryCount(retry_count)
          /\ IF NextRetryCount(retry_count) < max_retries
             THEN pc' = "retry" /\ exit_reason' = exit_reason
             ELSE Break("max_retries")
     ELSE Break("success") /\ retry_count' = retry_count
  /\ UNCHANGED <<alive, downloaded_files_db, downloaded_files_db_data,
                 pending_downloads, completed_downloads, current_download_batch,
                 current_channel, current_page>>
  /\ result' = NoResult
  /\ seen' = NoStatus /\ wait_save' = None
  /\ UNCHANGED <<diskVars, envVars, chanIdx, page, totalPages>>
  /\ wait_end' = None
  /\ UNCHANGED <<last_progress, no_change_count, expected_files, wait_count>>
  /\ UNCHANGED <<run_end, returned, crashes, sigVars>>

\* lines 1312-1314: after the retry loop the page loop goes on
PageEnd ==
  /\ At("page_end")
  /\ NextPage
  /\ UNCHANGED <<alive, downloaded_files_db, downloaded_files_db_data,
                 pending_downloads, completed_downloads, current_download_batch,
                 current_channel, current_page>>
  /\ hist' = NoHist
  /\ UNCHANGED <<diskVars, envVars, retry_count, waitVars>>
  /\ UNCHANGED <<exit_reason, wait_end, returned, crashes, sigVars>>

\* main's finally: DeviceScraper.close saves the ledger and closes the browser
Close ==
  /\ At("closing")
  /\ \E o \in CloseOutcomes :
       /\ downloaded_files_db \/ o = "ok"
       /\ ledgerFile' = SavedFile(downloaded_files_db_data, o)
       /\ close_save' = o
       /\ interrupted' = (interrupted \/ o = "sigint")
  /\ alive' = FALSE
  /\ pc' = "exited"
  /\ UNCHANGED <<downloaded_files_db, downloaded_files_db_data,
                 pending_downloads, completed_downloads, current_download_batch,
                 current_channel, current_page>>
  /\ UNCHANGED <<downloadDir, organizedDir, envVars, loopVars, waitVars>>
  /\ UNCHANGED <<loopGhost, returned, crashes>>

\* SIGINT between two steps: signal_handler logs, schedules close() and calls
\* sys.exit(130); SystemExit (or the cancellation of the main task when the
\* event loop shuts down) passes every "except Exception" of the program and
\* unwinds main to its finally, which awaits close()
Interrupt ==
  /\ alive
  /\ pc # "closing"
  /\ pc' = "closing"
  /\ interrupted' = TRUE
  /\ run_end' = "interrupted"
  /\ chanIdx' = 0 /\ page' = 0 /\ totalPages' = 0 /\ retry_count' = 0
  /\ last_progress' = "" /\ no_change_count' = 0 /\ expected_files' = 0
  /\ result' = NoResult /\ wait_count' = 0
  /\ seen' = NoStatus /\ wait_save' = None
  /\ exit_reason' = None /\ wait_end' = None /\ hist' = NoHist
  /\ UNCHANGED <<alive, downloaded_files_db, downloaded_files_db_data,
                 pending_downloads, completed_downloads, current_download_batch,
                 current_channel, current_page>>
  /\ UNCHANGED <<diskVars, envVars, returned, crashes, close_save>>

(***************************************************************************)
(* The specification.                                                      *)
(***************************************************************************)
\* the program starts with the ledger file file
Started(file) ==
  /\ alive = TRUE
  /\ pc = "main"
  /\ downloaded_files_db = FALSE
  /\ downloaded_files_db_data = EmptyDb
  /\ pending_downloads = {}
  /\ completed_downloads = <<>>
  /\ current_download_batch = <<>>
  /\ current_channel = NoCtx
  /\ current_page = NoCtx
  /\ ledgerFile = file
  /\ downloadDir = [f \in Filenames |-> "none"]
  /\ organizedDir = {}
  /\ sessionValid = FALSE
  /\ dl = [h \in Handlers |-> NoDownload]
  /\ transfer = NoTransfer
  /\ chanIdx = 0 /\ page = 0 /\ totalPages = 0 /\ retry_count = 0
  /\ last_progress = "" /\ no_change_count = 0 /\ expected_files = 0
  /\ result = NoResult /\ wait_count = 0
  /\ seen = NoStatus /\ wait_save = None
  /\ exit_reason = None /\ wait_end = None /\ hist = NoHist /\ run_end = None
  /\ returned = {}
  /\ crashes = 0
  /\ interrupted = FALSE
  /\ close_save = None

\* a first run for the date: no ledger file yet
Init == Started(MissingFile)

\* a run that finds any ledger file
InitLoad == \E file \in InitialLedgerFiles : Started(file)

Download ==
  \E h \in Handlers, f \in Filenames, o \in SaveOutcomes : HandleDownload(h, f, o)

SaveAs == \E h \in Handlers, r \in {"data", "zero", "raise"} : SaveAsCompletes(h, r)

Resume == \E h \in Handlers, o \in SaveOutcomes : HandleDownloadResume(h, o)

Next ==
  \/ Main
  \/ DownloadPlaybackStart
  \/ ChannelStart
  \/ PageStart
  \/ RetryIteration
  \/ WaitPoll
  \/ WaitAlertTick
  \/ WaitQueuedAlertTick
  \/ WaitQueuedFilesTick
  \/ Reconcile
  \/ PageEnd
  \/ Close
  \/ Download
  \/ SaveAs
  \/ Resume
  \/ Crash
  \/ Restart
  \/ Interrupt

Spec == Init /\ [][Next]_vars

(***************************************************************************)
(* The driving loop on its own: the browser emits no download event, so    *)
(* the batches end by what the polls of the page report.                   *)
(***************************************************************************)
LoopNext ==
  \/ Main
  \/ DownloadPlaybackStart
  \/ ChannelStart
  \/ PageStart
  \/ RetryIteration
  \/ WaitPoll
  \/ WaitAlertTick
  \/ WaitQueuedAlertTick
  \/ WaitQueuedFilesTick
  \/ Reconcile
  \/ PageEnd
  \/ Close
  \/ Crash
  \/ Restart

SpecLoop == Init /\ [][LoopNext]_vars

(***************************************************************************)
(* The download handler during one batch: the loop has started a transfer  *)
(* and stays in its wait while the download events of the batch arrive.    *)
(***************************************************************************)
HandlerNext ==
  \/ Main
  \/ DownloadPlaybackStart
  \/ ChannelStart
  \/ PageStart
  \/ RetryIteration
  \/ Download
  \/ SaveAs
  \/ Resume
  \/ Crash
  \/ Restart

SpecHandler == Init /\ [][HandlerNext]_vars

(***************************************************************************)
(* The download handler during one batch with an interrupt signal: the     *)
(* signal arrives at any point of the run, also while close() saves.       *)
(***************************************************************************)
InterruptNext ==
  \/ Main
  \/ DownloadPlaybackStart
  \/ ChannelStart
  \/ PageStart
  \/ RetryIteration
  \/ Download
  \/ SaveAs
  \/ Resume
  \/ Interrupt
  \/ Close

SpecInterrupt == Init /\ [][InterruptNext]_vars

\* the same run started over any ledger file
SpecLoad == InitLoad /\ [][InterruptNext]_vars

(***************************************************************************)
(* One batch up to the return of its wait: the download events of the      *)
(* batch arrive before, between and after the polls of the wait.  Every    *)
(* file lands with data and the ledger file is written without error.      *)
(***************************************************************************)
\* the recordings the device offers in the batch
BatchFiles == {FileA, FileB}

BatchDownload == \E h \in Handlers, f \in BatchFiles : HandleDownload(h, f, "ok")

BatchSaveAs == \E h \in Handlers : SaveAsCompletes(h, "data")

BatchResume == \E h \in Handlers : HandleDownloadResume(h, "ok")

BatchNext ==
  \/ Main
  \/ DownloadPlaybackStart
  \/ ChannelStart
  \/ PageStart
  \/ RetryIteration
  \/ WaitPoll
  \/ WaitAlertTick
  \/ BatchDownload
  \/ BatchSaveAs
  \/ BatchResume

SpecBatch == Init /\ [][BatchNext]_vars

(***************************************************************************)
(* Batch after batch: the loop goes on after each wait while the download  *)
(* events arrive; a handler suspended in save_as may resume after the next *)
(* start_download.  One recording is offered, once, and lands with data.   *)
(***************************************************************************)
LateDownload == HandleDownload(1, FileA, "ok")

LateSaveAs == SaveAsCompletes(1, "data")

LateResume == HandleDownloadResume(1, "ok")

LateNext ==
  \/ Main
  \/ DownloadPlaybackStart
  \/ ChannelStart
  \/ PageStart
  \/ RetryIteration
  \/ WaitPoll
  \/ Reconcile
  \/ PageEnd
  \/ LateDownload
  \/ LateSaveAs
  \/ LateResume

SpecLate == Init /\ [][LateNext]_vars

(***************************************************************************)
(* The wait with a download whose handler never finishes: the event is     *)
(* handled up to its save_as, which does not complete.  Time advances: the *)
(* loop condition of the polling loop eventually finds the timeout         *)
(* elapsed, and every round of the secondary waits, which sleeps 1 s, ends.*)
(***************************************************************************)
StuckDownload == HandleDownload(1, FileA, "ok")

WaitNext ==
  \/ Main
  \/ DownloadPlaybackStart
  \/ ChannelStart
  \/ PageStart
  \/ RetryIteration
  \/ WaitPoll
  \/ WaitAlertTick
  \/ WaitQueuedAlertTick
  \/ WaitQueuedFilesTick
  \/ StuckDownload

\* the loop condition fails: Download timeout
WaitTimeout == WaitPoll /\ wait_end' = "timeout"

WaitFair ==
  /\ WF_vars(WaitTimeout)
  /\ WF_vars(WaitAlertTick)
  /\ WF_vars(WaitQueuedAlertTick)
  /\ WF_vars(WaitQueuedFilesTick)

SpecWait == Init /\ [][WaitNext]_vars /\ WaitFair

(***************************************************************************)
(* Properties of the download handler and of the ledger, under             *)
(* SpecHandler.                                                            *)
(***************************************************************************)
Pages == 1..MaxPages

\* a download event is given to handler h in this step of the running program
Offered(h) == alive /\ dl[h].st = "none" /\ dl'[h].st # "none" /\ alive'

\* handler h runs from the return of save_as to its end in this step
Resumed(h) == alive /\ dl[h].st = "stored" /\ dl'[h].st = "done" /\ alive'

\* C1: when the filename of a download event is in the ledger under the
\* current channel and page, the handler cancels the download and returns:
\* nothing is saved, completed_downloads, current_download_batch and the
\* ledger (in memory and on disk) are as before, and the download is not
\* pending.
C1_SkipCommitted ==
  [][\A h \in Handlers :
       (/\ Offered(h)
        /\ ContextSet
        /\ IsDownloadedIn(downloaded_files_db_data, current_channel,
                          current_page, dl'[h].f))
       => (/\ dl'[h].st = "done" /\ dl'[h].end = "skip_db"
           /\ downloadDir' = downloadDir
           /\ organizedDir' = organizedDir
           /\ completed_downloads' = completed_downloads
           /\ current_download_batch' = current_download_batch
           /\ downloaded_files_db_data' = downloaded_files_db_data
           /\ ledgerFile' = ledgerFile
           /\ h \notin pending_downloads')]_vars

\* a download was cancelled because its filename was in the ledger
C1_Witness ==
  \E h \in Handlers :
    /\ alive /\ dl[h].st = "done" /\ dl[h].end = "skip_db"
    /\ ContextSet
    /\ IsDownloadedIn(downloaded_files_db_data, current_channel,
                      current_page, dl[h].f)

NoDupSeq(q) == \A i, j \in 1..Len(q) : i # j => q[i] # q[j]

NoDupDb(d) ==
  \A ck \in DOMAIN d : \A pk \in DOMAIN d[ck] : NoDupSeq(d[ck][pk])

\* C2: the ledger in memory and the ledger on disk hold no filename twice in
\* the list of a (channel, page), and for every (channel, page, filename)
\* marking it in the ledger twice gives the ledger that marking it once
\* gives, the second call appending nothing.
C2_MarkIdempotent ==
  /\ NoDupDb(downloaded_files_db_data)
  /\ NoDupDb(ledgerFile.data)
  /\ \A c \in Channels, p \in Pages, f \in Filenames :
       LET once == MarkedDb(downloaded_files_db_data, c, p, f) IN
         /\ MarkedDb(once, c, p, f) = once
         /\ ~MarkAppends(once, c, p, f)
         /\ NoDupDb(once)

\* mark_file_downloaded was called twice for the same (channel, page,
\* filename): two downloads of one batch landed with the same name
C2_Witness ==
  \E h1, h2 \in Handlers :
    /\ h1 < h2 /\ alive
    /\ dl[h1].f = dl[h2].f /\ dl[h1].tr = transfer /\ dl[h2].tr = transfer
    /\ dl[h1].end = "saved" /\ dl[h2].end = "saved"
    /\ IsDownloadedIn(downloaded_files_db_data, current_channel,
                      current_page, dl[h1].f)

\* C3: once the ledger of the date is loaded, every (channel, page, filename)
\* of a mark_file_downloaded call that returned, in this run of the program
\* or in one before a stop, is reported by is_file_downloaded.
C3_MarkedSurvivesRestart ==
  (alive /\ downloaded_files_db)
  => \A t \in returned :
       IsDownloadedIn(downloaded_files_db_data, t[1], t[2], t[3])

\* handler h appended its filename to completed_downloads
Counted(h) == dl[h].end \in {"saved", "skip_exists"}

\* C6: of two download events of one batch with the same filename at most
\* one appends the filename to current_download_batch and to
\* completed_downloads.
C6_CountedOnce ==
  \A h1, h2 \in Handlers :
    (/\ h1 # h2
     /\ dl[h1].f = dl[h2].f
     /\ dl[h1].tr = dl[h2].tr /\ dl[h1].tr # NoTransfer)
    => ~(Counted(h1) /\ Counted(h2))

\* C7: when the organized path of the filename of a download event exists
\* (and the filename is not in the ledger under the current channel and
\* page), the handler cancels the download, the filename is in the ledger
\* under the current channel and page, and current_download_batch, which the
\* wait compares with the expected count, has the filename appended.
C7_ExistingCounted ==
  [][\A h \in Handlers :
       (/\ Offered(h)
        /\ ~(ContextSet
             /\ IsDownloadedIn(downloaded_files_db_data, current_channel,
                               current_page, dl'[h].f))
        /\ EndsWithMp4(dl'[h].f) /\ ExistsMatch(dl'[h].f)
        /\ ExpectedPath(dl'[h].f) \in organizedDir)
       => (/\ dl'[h].st = "done"
           /\ ContextSet
              => IsDownloadedIn(downloaded_files_db_data', current_channel,
                                current_page, dl'[h].f)
           /\ current_download_batch'
                = Append(current_download_batch, dl'[h].f))]_vars

\* C8: when the handler resumes after save_as and the file is empty or not
\* there, the ledger (in memory and on disk), completed_downloads and
\* current_download_batch are as before, the download is no longer pending
\* and no file of that name is left in the download directory.
C8_EmptyOrMissingRejected ==
  [][\A h \in Handlers :
       (/\ Resumed(h)
        /\ dl[h].r # "raise"
        /\ downloadDir[dl[h].f] # "data")
       => (/\ downloaded_files_db_data' = downloaded_files_db_data
           /\ ledgerFile' = ledgerFile
           /\ completed_downloads' = completed_downloads
           /\ current_download_batch' = current_download_batch
           /\ organizedDir' = organizedDir
           /\ h \notin pending_downloads'
           /\ downloadDir'[dl[h].f] = "none")]_vars

\* a download saved an empty file, which the handler deleted
C8_Witness ==
  \E h \in Handlers :
    /\ alive /\ dl[h].st = "done" /\ dl[h].end = "zero" /\ dl[h].r = "zero"
    /\ downloadDir[dl[h].f] = "none"
    /\ h \notin pending_downloads
    /\ ~InSeq(dl[h].f, completed_downloads)

\* a filename that neither _organize_single_file nor check_file_exists parses
Unparsable(f) == ~OrganizeMatch(f) /\ ~ExistsMatch(f)

RetryLoopPcs == {"retry", "wait_poll", "wait_alert", "wait_queued_alert",
                 "wait_queued_files", "reconcile"}

\* C4: when the retry loop of a page has been left with the session valid
\* throughout, every select-all and start-transfer succeeding and every batch
\* completed with failure > 0, start_download was called exactly 3 times, the
\* sleeps before the second and third attempt were 5 s and 10 s, and the loop
\* was left because the retries were exhausted; no page sees a fourth start.
C4_ThreeAttempts ==
  /\ hist.starts <= 3
  /\ (/\ alive /\ pc = "page_end"
      /\ ~hist.lost /\ hist.allfail
      /\ exit_reason \notin {"select_failed", "start_failed"})
     => (/\ hist.starts = 3
         /\ hist.sleeps = <<5, 10>>
         /\ exit_reason = "max_retries")

\* the retry loop of a page was left after three batches that all failed
C4_Witness ==
  /\ alive /\ pc = "page_end"
  /\ ~hist.lost /\ hist.allfail
  /\ exit_reason = "max_retries"
  /\ hist.starts = 3

\* C5: when wait_for_download_completion returned because the session was
\* lost, the page is not abandoned: the loop goes back to the head of the
\* retry loop (where re_login_and_resume runs) for the same channel and page
\* with the attempt counter unchanged.
C5_ResumeSamePage ==
  [][(alive /\ pc = "reconcile" /\ wait_end = "session_lost" /\ alive'
      /\ pc' # pc)
     => (/\ pc' = "retry"
         /\ retry_count' = retry_count
         /\ chanIdx' = chanIdx /\ page' = page)]_vars

\* C10: inside the retry loop of a page no step of the running program leads
\* anywhere but on in the loop or to the statements after it, on the same
\* page; from there the loop goes to the next page of the channel, after the
\* last page to the next channel, and after the last channel to the regular
\* end of the flow.
C10_PageOutcomeAdvances ==
  [][/\ (alive /\ pc \in RetryLoopPcs /\ alive')
        => (/\ pc' \in RetryLoopPcs \cup {"page_end"}
            /\ chanIdx' = chanIdx /\ page' = page
            /\ totalPages' = totalPages)
     /\ (alive /\ pc = "page_end" /\ alive')
        => IF page < totalPages
           THEN pc' = "page" /\ chanIdx' = chanIdx /\ page' = page + 1
                /\ totalPages' = totalPages
           ELSE IF chanIdx < NumChannels
           THEN pc' = "chan" /\ chanIdx' = chanIdx + 1
           ELSE pc' = "closing" /\ run_end' = "completed"]_vars

\* after a batch that did not complete on page 1 the loop is at page 2
C10_Witness ==
  /\ alive /\ pc = "page" /\ page = 2
  /\ exit_reason = "not_completed"

(***************************************************************************)
(* Failed resumes and failed navigation, under SpecLoop.                   *)
(***************************************************************************)
\* the loop goes on with the channel after the current one, or ends regularly
\* after the last channel
ToNextChannel ==
  IF chanIdx < NumChannels
  THEN pc' = "chan" /\ chanIdx' = chanIdx + 1
  ELSE pc' = "closing" /\ run_end' = "completed"

\* re_login_and_resume returned false in the session check before the page
PageResumeFailed ==
  alive /\ pc = "page" /\ alive' /\ exit_reason' = "page_resume_failed"

ChannelLoopPcs == {"chan", "page", "page_end"} \cup RetryLoopPcs

\* C12: no step of the running program inside the loop over the channels
\* ends the flow while channels remain: a failed or raising navigation step
\* abandons at most the page or the channel.
C12_NavigationFailureLocal ==
  [][(alive /\ pc \in ChannelLoopPcs /\ alive' /\ pc' = "closing")
     => chanIdx = NumChannels]_vars

(***************************************************************************)
(* The interrupt signal, under SpecInterrupt.                              *)
(***************************************************************************)
\* C13: when the process has exited after an interrupt signal that arrived
\* after the ledger date was set, and no write of the ledger failed in
\* close(), the ledger file holds the in-memory ledger.
C13_InterruptFlushes ==
  (/\ pc = "exited" /\ interrupted /\ downloaded_files_db
   /\ close_save \notin {"err_open", "err_write"})
  => ledgerFile = [kind |-> "doc", data |-> downloaded_files_db_data]

\* the document of the ledger file when it holds ledger d
DocFile(d) == [kind |-> "doc", data |-> d]

(***************************************************************************)
(* The ledger file, under SpecHandler.                                     *)
(***************************************************************************)
\* C14: the ledger file never holds an empty or partially written document:
\* it is absent or holds a complete ledger.
C14_LedgerFileWhole == ledgerFile.kind \in {"missing", "doc"}

\* C16: when a handler appends a filename to the ledger and the write of the
\* file fails, the handler goes on as after a successful write and the
\* filename is in the in-memory ledger; a filename in the in-memory ledger
\* stays there while the process runs; and every write that succeeds leaves
\* the whole in-memory ledger in the file.
C16_SaveFailureKeepsMemory ==
  [][/\ \A h \in Handlers :
          (/\ Offered(h) \/ Resumed(h)
           /\ downloaded_files_db_data' # downloaded_files_db_data
           /\ ledgerFile' # DocFile(downloaded_files_db_data'))
          => (/\ dl'[h].st = "done"
              /\ dl'[h].end \in {"saved", "skip_exists"}
              /\ ContextSet
              /\ IsDownloadedIn(downloaded_files_db_data', current_channel,
                                current_page, dl'[h].f)
              /\ <<current_channel, current_page, dl'[h].f>> \in returned')
     /\ (alive /\ alive' /\ downloaded_files_db)
        => \A c \in Channels, p \in Pages, f \in Filenames :
             IsDownloadedIn(downloaded_files_db_data, c, p, f)
             => IsDownloadedIn(downloaded_files_db_data', c, p, f)
     /\ (alive /\ alive' /\ ledgerFile' # ledgerFile
         /\ ledgerFile'.kind = "doc")
        => ledgerFile' = DocFile(downloaded_files_db_data')]_vars

\* a mark_file_downloaded call whose write failed has returned: the filename
\* is in the in-memory ledger of the running process and not in the file
C16_Witness ==
  /\ alive /\ crashes = 0
  /\ \E t \in returned :
       /\ IsDownloadedIn(downloaded_files_db_data, t[1], t[2], t[3])
       /\ ~(ledgerFile.kind = "doc"
            /\ IsDownloadedIn(ledgerFile.data, t[1], t[2], t[3]))

(***************************************************************************)
(* Loading the ledger, under SpecLoad.                                     *)
(***************************************************************************)
\* C15: when set_download_date loads a ledger file that is missing, is not
\* valid JSON or lacks "channels", the in-memory ledger becomes empty, and
\* after every load the run goes on to the channel loop.
C15_LoadNeverRaises ==
  [][(At("dp_start") /\ downloaded_files_db')
     => (/\ alive' /\ pc' = "chan"
         /\ ledgerFile' = ledgerFile
         /\ ledgerFile.kind \in {"missing", "partial", "nochannels"}
            => downloaded_files_db_data' = EmptyDb
         /\ ledgerFile.kind = "doc"
            => downloaded_files_db_data' = ledgerFile.data)]_vars

\* a ledger file without "channels" was loaded and the run is in its page loop
C15_Witness ==
  /\ At("page") /\ downloaded_files_db
  /\ ledgerFile.kind = "nochannels"
  /\ downloaded_files_db_data = EmptyDb

(***************************************************************************)
(* wait_for_download_completion, under SpecLoop.                           *)
(***************************************************************************)
\* C17: when the wait returns completed after an alert "Success s Failure f",
\* current_download_batch holds exactly s filenames, and never more than
\* s + f.
C17_BatchMatchesAlert ==
  (/\ At("reconcile")
   /\ wait_end \in {"alert", "alert_timeout"}
   /\ result.completed)
  => (/\ Len(current_download_batch) = result.success
      /\ Len(current_download_batch) <= result.success + result.failure)

\* C19: when the session stayed valid and the polling loop ended because the
\* timeout had elapsed, the wait has returned {0, 0, not completed}.
C19_TimeoutResult ==
  (At("reconcile") /\ wait_end = "timeout") => result = NoResult

\* the wait has returned after its timeout in a valid session
C19_Witness ==
  /\ At("reconcile") /\ wait_end = "timeout"
  /\ sessionValid
  /\ result = NoResult

\* the waits inside one iteration of the polling loop
SubWaitPcs == {"wait_alert", "wait_queued_alert", "wait_queued_files"}

\* C20: the wait returns at most one poll interval after its timeout: the
\* timeout may elapse as soon as the loop condition has been evaluated, so no
\* wait inside an iteration sleeps longer than one poll interval (each of its
\* rounds sleeps one second).
C20_ReturnsWithinTimeout ==
  (alive /\ pc \in SubWaitPcs) => wait_count <= PollInterval

(***************************************************************************)
(* The download events of a batch and the polls of its wait, under         *)
(* SpecBatch.                                                              *)
(***************************************************************************)
\* C18: the result of a wait that observed an alert and the filenames in the
\* ledger do not depend on when the download events arrive: the result is
\* fixed by the alert (no event and no round of the wait changes it, and the
\* wait returns it), an event changes nothing the wait reads but the batch
\* and the pending set, every landed file is committed under the page of the
\* batch, and the ledger holds the landed and the already organized files
\* only.
C18_InterleavingIndependent ==
  [][/\ (At("wait_poll") /\ pc' = "wait_alert")
        => (result'.completed /\ result'.success = expected_files')
     /\ (At("wait_alert") /\ alive') => result' = result
     /\ (alive /\ alive' /\ dl' # dl)
        => UNCHANGED <<pc, result, expected_files, wait_count, sessionValid,
                       current_channel, current_page>>
     /\ \A h \in Handlers :
          (Resumed(h) /\ dl'[h].end = "saved")
          => IsDownloadedIn(downloaded_files_db_data', transfer[2], transfer[3],
                            dl[h].f)
     /\ \A c \in Channels, p \in Pages, f \in Filenames :
          IsDownloadedIn(downloaded_files_db_data', c, p, f)
          => \E h \in Handlers :
               dl'[h].f = f /\ dl'[h].end \in {"saved", "skip_exists"}]_vars

\* the alert was observed before the file of the batch had landed; the file
\* has landed since and is committed
C18_Witness ==
  /\ At("wait_alert") /\ sessionValid
  /\ wait_count > 0
  /\ expected_files = 1
  /\ BatchSettled
  /\ \E h \in Handlers :
       /\ dl[h].end = "saved"
       /\ IsDownloadedIn(downloaded_files_db_data, current_channel,
                         current_page, dl[h].f)

(***************************************************************************)
(* The organized files, under SpecHandler.                                 *)
(***************************************************************************)
\* C21: a filename that _organize_single_file organizes is probed by
\* check_file_exists at the path it was organized to: once its organized
\* file is there, check_file_exists reports the filename as existing.
C21_OrganizedIsDetected ==
  \A f \in Filenames :
    (EndsWithMp4(f) /\ OrganizeMatch(f) /\ OrganizeTarget(f) \in organizedDir)
    => check_file_exists(f)

\* channel3/2025-01-29.14-30-00_14-45-00.mp4
PathWithEndTime ==
  <<"channel", 3, <<"2025", "-", "01", "-", "29">>, ".",
    <<"14", "-", "30", "-", "00">>, "_", <<"14", "-", "45", "-", "00">>,
    ".mp4">>

\* C22: once 10.0.0.5_3_20250129143000_20250129144500.mp4 has landed and the
\* handler is through with it, it is organized to
\* channel3/2025-01-29.14-30-00_14-45-00.mp4.
C22_EndTimeNameOrganized ==
  \A h \in Handlers :
    (alive /\ dl[h].st = "done" /\ dl[h].end = "saved" /\ dl[h].f = FileB)
    => PathWithEndTime \in organizedDir

(***************************************************************************)
(* The exits of wait_for_download_completion.                              *)
(***************************************************************************)
\* C23: from the poll that observes a visible alert "Success s Failure f" on,
\* and when the wait returns after it (the files have landed with nothing
\* pending, or the rounds of the wait for them are over), the result is
\* {success: s, failure: f, completed: true}.
C23_AlertResult ==
  (alive /\ (pc = "wait_alert"
             \/ (pc = "reconcile" /\ wait_end \in {"alert", "alert_timeout"})))
  => (/\ seen.alert.vis /\ seen.alert.parsed
      /\ result = [success |-> seen.alert.s, failure |-> seen.alert.f,
                   completed |-> TRUE])

\* the wait for the files is over with fewer files than the alert reported
C23_Witness ==
  /\ At("reconcile") /\ wait_end = "alert_timeout"
  /\ seen.alert.s = 1
  /\ Len(current_download_batch) = 0
  /\ result = [success |-> 1, failure |-> seen.alert.f, completed |-> TRUE]

\* C24: when the wait returns after "(n/n)" and no alert was visible in the
\* wait for it, the result is {success: 0, failure: 0, completed: true}.
C24_QueuedNoAlertCompleted ==
  (/\ At("reconcile")
   /\ wait_end \in {"queued", "queued_timeout"}
   /\ ~seen.alert.vis)
  => result = [success |-> 0, failure |-> 0, completed |-> TRUE]

C26_StopGone ==
  (At("reconcile") /\ wait_end = "stop_gone")
  => (/\ ~seen.stop
      /\ seen.info = None
      /\ ~seen.alert.parsed
      /\ result = [success |-> 0, failure |-> 0, completed |-> TRUE])

\* the wait has returned by the stop-button rule
C26_Witness ==
  /\ At("reconcile") /\ wait_end = "stop_gone"
  /\ sessionValid
  /\ result.completed

\* C27: whenever the wait has returned, save_downloaded_files_db was called
\* before the return.
C27_SavedBeforeReturn ==
  At("reconcile") => wait_save # None

C29_BatchOwnedByTransfer ==
  (alive /\ transfer # NoTransfer)
  => \A i \in 1..Len(current_download_batch) :
       \E h \in Handlers :
         /\ dl[h].f = current_download_batch[i]
         /\ dl[h].end = "saved"
         /\ dl[h].tr = transfer

\* the order in which re_login_and_resume replays the navigation
ResumeOrder == <<"login", "select_channel", "set_date_range", "query_playback",
                 "jump">>

ResumeLength(page_num) == IF page_num > 1 THEN 5 ELSE 4

\* C30: a re_login_and_resume call runs login, select channel, set date
\* range, query and (only for a page above 1) the jump to that page, in this
\* order; it stops at the first step that fails, running none of the later
\* ones, and returns true exactly when every step ran and succeeded.
C30_ResumeInOrder ==
  LET rr == hist.resume
      n == Len(rr.steps)
      full == ResumeLength(rr.page)
  IN (alive /\ rr # NoResume)
     => /\ n >= 1 /\ n <= full
        /\ \A i \in 1..n : rr.steps[i].step = ResumeOrder[i]
        /\ \A i \in 1..(n - 1) : rr.steps[i].ok
        /\ n < full => ~rr.steps[n].ok
        /\ rr.ret <=> (n = full /\ \A i \in 1..n : rr.steps[i].ok)

\* a resume to page 2 that stopped at a failed query, and the page abandoned
C30_Witness ==
  /\ alive
  /\ At("page_end")
  /\ exit_reason = "resume_failed"
  /\ hist.resume.page = 2
  /\ ~hist.resume.ret
  /\ Len(hist.resume.steps) = 4
  /\ ~hist.resume.steps[4].ok

StartIndex(calls) ==
  IF \E k \in 1..Len(calls) : calls[k].call = "start_download"
  THEN CHOOSE k \in 1..Len(calls) : calls[k].call = "start_download"
  ELSE 0

\* before call k: a session check or a resume that returned true, then a
\* select_all_files that returned true, and no resume that returned false
GuardedStart(calls, k) ==
  /\ \E i \in 1..(k - 1), j \in 1..(k - 1) :
       /\ i < j
       /\ calls[i].call \in {"check_session", "re_login_and_resume"}
       /\ calls[i].ret
       /\ calls[j] = Call("select_all_files", TRUE)
  /\ \A i \in 1..(k - 1) : calls[i] # Call("re_login_and_resume", FALSE)

\* C32: an iteration of the retry loop calls start_download only after a
\* session check or a resume that returned true and, after that, a
\* select_all_files that returned true; never after a failed resume.
C32_StartGuarded ==
  [][/\ (hist'.starts = hist.starts + 1) => StartIndex(hist'.calls) > 0
     /\ StartIndex(hist'.calls) > 0
          => GuardedStart(hist'.calls, StartIndex(hist'.calls))]_vars

\* a transfer started after a lost session was resumed
C32_Witness ==
  /\ At("wait_poll")
  /\ hist.starts = 1
  /\ hist.calls = <<Call("check_session", FALSE),
                    Call("re_login_and_resume", TRUE),
                    Call("select_all_files", TRUE),
                    Call("start_download", TRUE)>>

\* wait_for_download_completion is running
InWait == alive /\ pc \in SubWaitPcs \cup {"wait_poll"}

\* C33: every call of wait_for_download_completion eventually returns (or
\* the process is stopped), also when a download handler never finishes, so
\* that pending_downloads never becomes empty, and when no alert ever shows.
C33_WaitReturns == InWait ~> (At("reconcile") \/ ~alive)

\* the wait returned after its 120 rounds with the handler still pending
C33_Witness ==
  /\ At("reconcile")
  /\ wait_end = "queued_timeout"
  /\ pending_downloads # {}
  /\ ~seen.alert.vis

\* C34: on each page, however session losses, resumes and batch outcomes
\* interleave, start_download is called at most 3 times and the retry loop
\* makes at most 3 iterations: at the head of the loop the attempt counter is
\* the number of iterations made and is below 3, and an iteration either
\* leaves the loop or comes back to its head with the counter one higher.
C34_RetryLoopBounded ==
  [][/\ hist'.starts <= 3
     /\ (alive' /\ pc' = "retry")
          => (retry_count' = hist'.starts /\ retry_count' < 3)
     /\ (At("retry") /\ alive') => pc' \in {"retry", "wait_poll", "page_end"}
     /\ (At("retry") /\ alive' /\ pc' = "retry") => retry_count' = retry_count
     /\ (At("reconcile") /\ alive') => pc' \in {"reconcile", "retry", "page_end"}
     /\ (At("reconcile") /\ alive' /\ pc' = "retry")
          => retry_count' = retry_count + 1]_vars

\* three transfers on a page on which the session was lost and resumed
C34_Witness ==
  /\ At("page_end")
  /\ hist.starts = 3
  /\ hist.lost
  /\ exit_reason = "max_retries"

\* download_playback reports the page as completed successfully
PageDoneStep == At("reconcile") /\ alive' /\ exit_reason' = "success"

\* the batch ended through an alert whose text reported Failure 0
EndedByCleanAlert == seen.alert.vis /\ seen.alert.parsed /\ seen.alert.f = 0

C36_CommittedUnderOwnContext ==
  alive
  => \A c \in Channels, p \in Pages, f \in Filenames :
       is_file_downloaded(c, p, f)
       => \E h \in Handlers :
            /\ dl[h].f = f
            /\ dl[h].tr # NoTransfer
            /\ dl[h].tr[2] = c
            /\ dl[h].tr[3] = p

\* handler h is between its start and its end (suspended in save_as, or
\* about to resume after it)
InFlight(h) == dl[h].st \in {"saving", "stored"}

\* C37: a run of _handle_download that reached its end, on whichever path,
\* has removed its download from pending_downloads: only downloads whose
\* handler is in flight are pending, and with no handler in flight
\* pending_downloads is empty.
C37_PendingOnlyInFlight ==
  alive
  => /\ \A h \in Handlers : h \in pending_downloads => InFlight(h)
     /\ (\A h \in Handlers : ~InFlight(h)) => pending_downloads = {}

\* two handlers ended, one by the exception of save_as and one on a file of
\* zero bytes, and nothing is pending
C37_Witness ==
  /\ alive
  /\ \E g, h \in Handlers : dl[g].end = "error" /\ dl[h].end = "zero"
  /\ pending_downloads = {}

\* the ledger of the target date is loaded and the process goes on
LedgerInUse == alive /\ downloaded_files_db /\ alive'

\* C38: once the ledger of the target date has been loaded, no operation of
\* the run removes a filename from the in-memory ledger: what
\* is_file_downloaded reports as true stays true until the process ends.
C38_LedgerOnlyGrows ==
  [][LedgerInUse
       => \A c \in Channels, p \in Pages, f \in Filenames :
            is_file_downloaded(c, p, f) => is_file_downloaded(c, p, f)']_vars

\* the entry loaded from the ledger file of an earlier run is still there
\* after this run marked a file under another page
C38_Witness ==
  /\ alive
  /\ ledgerFile.kind = "doc"
  /\ is_file_downloaded(1, 1, FileA)
  /\ <<1, 1, FileA>> \notin returned
  /\ \E f \in Filenames : <<1, 2, f>> \in returned /\ is_file_downloaded(1, 2, f)

\* C39: mark_file_downloaded(c, p, f) changes only the list of (c, p): a
\* handler step that marks f under the current (channel, page) leaves
\* is_file_downloaded as it was for every other (channel, page) and, under
\* the same (channel, page), for every other filename.
C39_MarkFrame ==
  [][\A h \in Handlers :
       (Offered(h) \/ Resumed(h))
       => \A c \in Channels, p \in Pages, g \in Filenames :
            <<c, p, g>> # <<current_channel, current_page, dl'[h].f>>
            => (is_file_downloaded(c, p, g)' <=> is_file_downloaded(c, p, g))]_vars

\* a handler marked its file under the current (channel, page) and the file
\* marked before under another (channel, page) is still marked there, and
\* not under the current one
C39_Witness ==
  /\ alive
  /\ ContextSet
  /\ \E h \in Handlers :
       /\ dl[h].end \in {"saved", "skip_exists"}
       /\ is_file_downloaded(current_channel, current_page, dl[h].f)
       /\ \E d \in Channels, q \in Pages, g \in Filenames \ {dl[h].f} :
            /\ <<d, q>> # <<current_channel, current_page>>
            /\ is_file_downloaded(d, q, g)
            /\ ~is_file_downloaded(current_channel, current_page, g)
            /\ ~is_file_downloaded(d, q, dl[h].f)

====
